---- MODULE Spec2Model ----
(***************************************************************************)
(* Model of autocomplete-keyword-engine.py: the cached suggestion client   *)
(* google_autocomplete, the expander expand_keyword and the main logic     *)
(* that runs when the "Generate Ideas" button is pressed.                  *)
(*                                                                         *)
(* Python strings are sequences of one-character strings, so that strip,   *)
(* lower, splitlines and the f-strings are computed character by character.*)
(* Python objects that come out of r.json() are tagged records             *)
(* [t |-> "str" | "arr" | "num" | "obj", v |-> payload].                   *)
(***************************************************************************)
EXTENDS Integers, Sequences, FiniteSets, TLC

\* ------------------------------------------------------------------------
\* Bounds of the model
\* ------------------------------------------------------------------------
\* number of upstream responses per run that carry a non-empty value
MaxHits == 2
\* number of lines of the long seed inputs
MaxLines == 6
\* length of the short seed inputs (every text over the alphabet)
MaxText == 3

\* ------------------------------------------------------------------------
\* Strings
\* ------------------------------------------------------------------------
Space == " "
Newline == "\n"

\* str.isspace for the characters of the model
IsSpace(c) == c \in {" ", "\t", "\n"}

\* str.lower on one character, for the letters of the model
LowerChar(c) ==
  CASE c = "A" -> "a"
    [] c = "B" -> "b"
    [] c = "C" -> "c"
    [] c = "X" -> "x"
    [] OTHER -> c

\* s.lower()
Lower(s) == [n \in 1..Len(s) |-> LowerChar(s[n])]

RECURSIVE LStrip(_)
LStrip(s) == IF s # <<>> /\ IsSpace(Head(s)) THEN LStrip(Tail(s)) ELSE s

RECURSIVE RStrip(_)
RStrip(s) ==
  IF s # <<>> /\ IsSpace(s[Len(s)]) THEN RStrip(SubSeq(s, 1, Len(s) - 1)) ELSE s

\* s.strip()
Strip(s) == RStrip(LStrip(s))

\* seeds.splitlines(): a line ends at each newline; no empty last line
RECURSIVE SplitFrom(_, _, _)
SplitFrom(text, cur, acc) ==
  IF text = <<>> THEN (IF cur = <<>> THEN acc ELSE Append(acc, cur))
  ELSE IF Head(text) = Newline THEN SplitFrom(Tail(text), <<>>, Append(acc, cur))
  ELSE SplitFrom(Tail(text), Append(cur, Head(text)), acc)

SplitLines(text) == SplitFrom(text, <<>>, <<>>)

\* the cap on the number of seeds of one run
MaxSeeds == 5

\* variant: the comprehension without its `if s.strip()` filter
RECURSIVE StrippedAll(_)
StrippedAll(lines) ==
  IF lines = <<>> THEN <<>> ELSE <<Strip(Head(lines))>> \o StrippedAll(Tail(lines))

RECURSIVE StrippedNonEmpty(_)
StrippedNonEmpty(lines) ==
  IF lines = <<>> THEN <<>>
  ELSE IF Strip(Head(lines)) # <<>>
       THEN <<Strip(Head(lines))>> \o StrippedNonEmpty(Tail(lines))
       ELSE StrippedNonEmpty(Tail(lines))

Take(s, n) == SubSeq(s, 1, IF Len(s) < n THEN Len(s) ELSE n)

\* [s.strip() for s in seeds.splitlines() if s.strip()][:5]
SeedList(text) == Take(StrippedNonEmpty(SplitLines(text)), MaxSeeds)

\* ------------------------------------------------------------------------
\* Vocabularies
\* ------------------------------------------------------------------------
QUESTION_WORDS ==
  << <<"w","h","a","t">>, <<"w","h","y">>, <<"h","o","w">>,
     <<"w","h","e","r","e">>, <<"w","h","e","n">>, <<"w","h","o">>,
     <<"w","h","i","c","h">>, <<"c","a","n">>, <<"w","i","l","l">>,
     <<"a","r","e">> >>

PREPOSITIONS ==
  << <<"f","o","r">>, <<"w","i","t","h">>, <<"w","i","t","h","o","u","t">>,
     <<"t","o">>, <<"n","e","a","r">>, <<"i","n">>, <<"o","n">>,
     <<"a","b","o","u","t">>, <<"v","e","r","s","u","s">>, <<"v","s">> >>

\* variant: a comparison vocabulary with one term more
COMPARISONS_wider ==
  << <<"v","s">>, <<"v","e","r","s","u","s">>,
     <<"a","l","t","e","r","n","a","t","i","v","e">>,
     <<"a","l","t","e","r","n","a","t","i","v","e","s">>,
     <<"c","o","m","p","a","r","e">>,
     <<"c","o","m","p","a","r","i","s","o","n">>, <<"l","i","k","e">>,
     <<"s","i","m","i","l","a","r">> >>

COMPARISONS ==
  << <<"v","s">>, <<"v","e","r","s","u","s">>,
     <<"a","l","t","e","r","n","a","t","i","v","e">>,
     <<"a","l","t","e","r","n","a","t","i","v","e","s">>,
     <<"c","o","m","p","a","r","e">>,
     <<"c","o","m","p","a","r","i","s","o","n">>, <<"l","i","k","e">> >>

\* f"{a} {b}"
Phrase(a, b) == a \o <<Space>> \o b

\* ------------------------------------------------------------------------
\* Python values and upstream outcomes
\* ------------------------------------------------------------------------
JStr(s) == [t |-> "str", v |-> s]
JArr(items) == [t |-> "arr", v |-> items]
JNum == [t |-> "num", v |-> <<>>]
JObj == [t |-> "obj", v |-> <<>>]

\* the literal [] of the except branch
EmptyList == JArr(<<>>)

\* suggestion strings the upstream service may send
SugLow == JStr(<<"a", "b">>)
SugUp == JStr(<<"A", "B">>)
SugC == JStr(<<"c">>)
SugCUp == JStr(<<"C">>)

\* s[:len(w)] == w and s[-len(w):] == w
StartsWith(s, w) == Len(s) >= Len(w) /\ SubSeq(s, 1, Len(w)) = w
EndsWith(s, w) == Len(s) >= Len(w) /\ SubSeq(s, Len(s) - Len(w) + 1, Len(s)) = w

\* the upstream service of the model has suggestions only for the queries
\* that begin or end with one of these words
PopularWords ==
  { QUESTION_WORDS[1], QUESTION_WORDS[2], PREPOSITIONS[9], PREPOSITIONS[10],
    COMPARISONS[7] }

Popular(query) ==
  \E w \in PopularWords :
    StartsWith(query, w \o <<Space>>) \/ EndsWith(query, <<Space>> \o w)

\* a request that yields no value to iterate over: an exception of the
\* transport, a timeout, a non-success status, a body that is no JSON, a JSON
\* body with no element 1, an empty suggestion list, a number at index 1
Barren ==
  { [kind |-> "conn_error", body |-> JObj],
    [kind |-> "timeout", body |-> JObj],
    [kind |-> "http_error", body |-> JObj],
    [kind |-> "bad_json", body |-> JObj],
    [kind |-> "json", body |-> JObj],
    [kind |-> "json", body |-> JArr(<<JStr(<<"q">>)>>)],
    [kind |-> "json", body |-> JArr(<<JStr(<<"q">>), EmptyList>>)],
    [kind |-> "json", body |-> JArr(<<JStr(<<"q">>), JNum>>)] }

\* a request that yields suggestions, or another non-empty value at index 1
Suggesting ==
  { [kind |-> "json", body |-> JArr(<<JStr(<<"q">>), JArr(<<SugLow, SugC>>)>>)],
    [kind |-> "json", body |-> JArr(<<JStr(<<"q">>), JArr(<<SugUp, SugLow, SugCUp>>)>>)],
    [kind |-> "json", body |-> JArr(<<JStr(<<"q">>), JArr(<<SugC, JNum>>)>>)],
    [kind |-> "json", body |-> JArr(<<JStr(<<"q">>), JStr(<<"c", "d">>)>>)] }

\* what one requests.get for a query can end in
Outcomes(query) == IF Popular(query) THEN Barren \cup Suggesting ELSE Barren

\* r.json()[1] raises (IndexError, KeyError, TypeError)
NoItem1(body) ==
  \/ body.t \in {"num", "obj"}
  \/ body.t \in {"arr", "str"} /\ Len(body.v) < 2

\* r.json()[1]
Item1(body) == IF body.t = "str" THEN JStr(<<body.v[2]>>) ELSE body.v[2]

\* the try block raises: requests.get, raise_for_status, r.json() or [1]
Raises(out) ==
  \/ out.kind \in {"conn_error", "timeout"}
  \/ out.kind = "http_error"
  \/ out.kind = "bad_json"
  \/ NoItem1(out.body)

\* the body of google_autocomplete, given what the request ends in
Fetch(out) == IF Raises(out) THEN EmptyList ELSE Item1(out.body)

\* a value is a sequence of strings
IsStrList(val) == val.t = "arr" /\ \A n \in 1..Len(val.v) : val.v[n].t = "str"

\* the request did not deliver a list of suggestion strings at index 1
Failed(out) == Raises(out) \/ ~IsStrList(Item1(out.body))

\* `bucket += val` raises TypeError
NotIterable(val) == val.t \notin {"arr", "str"}

\* the elements `bucket += val` appends
Elems(val) ==
  IF val.t = "str" THEN [n \in 1..Len(val.v) |-> JStr(<<val.v[n]>>)] ELSE val.v

\* s.lower() raises AttributeError for some element
HasNonStr(bucket) == \E n \in 1..Len(bucket) : bucket[n].t # "str"

\* the inner loop of the deduplication
RECURSIVE UniqueFrom(_, _, _)
UniqueFrom(rest, seen, unique) ==
  IF rest = <<>> THEN unique
  ELSE IF Lower(Head(rest).v) \notin seen
       THEN UniqueFrom(Tail(rest), seen \cup {Lower(Head(rest).v)},
                       Append(unique, Head(rest)))
       ELSE UniqueFrom(Tail(rest), seen, unique)

\* variant: `if s not in seen`, the comparison without lower()
RECURSIVE UniqueFromExact(_, _, _)
UniqueFromExact(rest, seen, unique) ==
  IF rest = <<>> THEN unique
  ELSE IF Head(rest).v \notin seen
       THEN UniqueFromExact(Tail(rest), seen \cup {Head(rest).v}, Append(unique, Head(rest)))
       ELSE UniqueFromExact(Tail(rest), seen, unique)

UniqueExact(bucket) == UniqueFromExact(bucket, {}, <<>>)

\* variant: a later duplicate replaces the element kept so far
RECURSIVE UniqueFromReplacing(_, _)
UniqueFromReplacing(rest, unique) ==
  IF rest = <<>> THEN unique
  ELSE IF \E n \in 1..Len(unique) : Lower(unique[n].v) = Lower(Head(rest).v)
       THEN UniqueFromReplacing(Tail(rest),
              [n \in 1..Len(unique) |->
                 IF Lower(unique[n].v) = Lower(Head(rest).v) THEN Head(rest)
                 ELSE unique[n]])
       ELSE UniqueFromReplacing(Tail(rest), Append(unique, Head(rest)))

UniqueReplacing(bucket) == UniqueFromReplacing(bucket, <<>>)

Unique(bucket) == UniqueFrom(bucket, {}, <<>>)

BucketNames == {"Questions", "Prepositions", "Comparisons"}

\* variant: `seen = set()` set up once, before the loop over the keys
DedupSharedSeen(b) ==
  LET q == UniqueFrom(b["Questions"], {}, <<>>)
      seenQ == {Lower(b["Questions"][n].v) : n \in 1..Len(b["Questions"])}
      p == UniqueFrom(b["Prepositions"], seenQ, <<>>)
      seenP == seenQ \cup {Lower(b["Prepositions"][n].v) : n \in 1..Len(b["Prepositions"])}
      c == UniqueFrom(b["Comparisons"], seenP, <<>>)
  IN [key \in BucketNames |->
        IF key = "Questions" THEN q ELSE IF key = "Prepositions" THEN p ELSE c]

\* the deduplication loop over the keys of buckets
Dedup(b) == [key \in BucketNames |-> Unique(b[key])]

COUNTRY_TO_GL ==
  ("India" :> "IN") @@ ("United States" :> "US") @@ ("United Kingdom" :> "GB")
  @@ ("Australia" :> "AU") @@ ("Canada" :> "CA") @@ ("Germany" :> "DE")
  @@ ("France" :> "FR") @@ ("Spain" :> "ES") @@ ("Italy" :> "IT")
  @@ ("Brazil" :> "BR")

\* ------------------------------------------------------------------------
\* State
\* ------------------------------------------------------------------------
VARIABLES
  go_btn,     \* the button was pressed in this script run
  country,    \* the selectbox
  seeds,      \* the text area
  pc,         \* position of the script
  seed_list,  \* main logic: the seeds of the run
  k,          \* main logic: index of the for loop over seed_list
  gl_code,    \* main logic: region code of the run
  all_rows,   \* main logic: (Seed, Bucket, Suggestion) rows
  seed,       \* expand_keyword: its seed argument
  buckets,    \* expand_keyword: the three lists
  i,          \* expand_keyword: index of the loop over the vocabulary
  half,       \* expand_keyword: 1 = first call of the loop body, 2 = second
  cache,      \* st.cache_data: (query, gl) -> value returned
  calls,      \* history: the invocations made by the current expand_keyword
  expanded,   \* history: the seeds expand_keyword was called with in this run
  hits,       \* history: upstream responses so far with a non-empty value
  nreq,       \* history: outbound requests so far
  last        \* history: the last invocation of google_autocomplete

vars == <<go_btn, country, seeds, pc, seed_list, k, gl_code, all_rows, seed,
          buckets, i, half, cache, calls, expanded, hits, nreq, last>>

mainVars == <<go_btn, country, seeds, seed_list, k, gl_code, all_rows>>
clientVars == <<cache, hits, nreq, last>>

EmptyBuckets == [key \in BucketNames |-> <<>>]

NoCall == [called |-> FALSE, query |-> <<>>, gl |-> "", sent |-> 0,
           failed |-> FALSE, ret |-> EmptyList]

\* ------------------------------------------------------------------------
\* Seed inputs
\* ------------------------------------------------------------------------
Alphabet == {"x", "y", Space, Newline}

ShortTexts == UNION {[1..n -> Alphabet] : n \in 0..MaxText}

SeedLines == { <<Space, "x">>, <<"y", Space>> }

RECURSIVE JoinLines(_)
JoinLines(ls) ==
  IF ls = <<>> THEN <<>>
  ELSE IF Len(ls) = 1 THEN Head(ls)
  ELSE Head(ls) \o <<Newline>> \o JoinLines(Tail(ls))

LongTexts == {JoinLines(ls) : ls \in UNION {[1..n -> SeedLines] : n \in 1..MaxLines}}

ExpandTexts == { <<>>, <<"x">>, <<"x", Newline, "x">> }

Countries == {"India", "Germany"}

InitCommon ==
  /\ pc = "start"
  /\ seed_list = <<>>
  /\ k = 1
  /\ gl_code = ""
  /\ all_rows = <<>>
  /\ seed = <<>>
  /\ buckets = EmptyBuckets
  /\ i = 1
  /\ half = 1
  /\ cache = <<>>
  /\ calls = <<>>
  /\ expanded = <<>>
  /\ nreq = 0
  /\ last = NoCall

\* one expansion, the upstream service free to answer within MaxHits
Init ==
  /\ InitCommon
  /\ go_btn \in BOOLEAN
  /\ country = "India"
  /\ seeds \in ExpandTexts
  /\ hits = 0

\* any seed input, the upstream service answering with no suggestions
InitMain ==
  /\ InitCommon
  /\ go_btn \in BOOLEAN
  /\ country \in Countries
  /\ seeds \in ShortTexts \cup LongTexts
  /\ hits = MaxHits

\* ------------------------------------------------------------------------
\* Main logic
\* ------------------------------------------------------------------------
\* else branch: st.info
Idle ==
  /\ pc = "start" /\ ~go_btn
  /\ pc' = "idle"
  /\ UNCHANGED <<mainVars, clientVars, seed, buckets, i, half, calls, expanded>>

\* seed_list = [...][:5]
ParseSeeds ==
  /\ pc = "start" /\ go_btn
  /\ seed_list' = SeedList(seeds)
  /\ pc' = "validate"
  /\ UNCHANGED <<go_btn, country, seeds, k, gl_code, all_rows, clientVars,
                 seed, buckets, i, half, calls, expanded>>

\* if not seed_list: st.error; st.stop()
RejectEmpty ==
  /\ pc = "validate" /\ seed_list = <<>>
  /\ pc' = "stopped"
  /\ UNCHANGED <<mainVars, clientVars, seed, buckets, i, half, calls, expanded>>

\* all_rows = []; gl_code = COUNTRY_TO_GL[country]; the for loop starts
StartRun ==
  /\ pc = "validate" /\ seed_list # <<>>
  /\ all_rows' = <<>>
  /\ gl_code' = COUNTRY_TO_GL[country]
  /\ k' = 1
  /\ pc' = "loop"
  /\ UNCHANGED <<go_btn, country, seeds, seed_list, clientVars, seed, buckets,
                 i, half, calls, expanded>>

\* buckets = expand_keyword(seed, gl_code): the call and line 83
CallExpand ==
  /\ pc = "loop" /\ k <= Len(seed_list)
  /\ seed' = seed_list[k]
  /\ buckets' = EmptyBuckets
  /\ i' = 1
  /\ half' = 1
  /\ calls' = <<>>
  /\ expanded' = Append(expanded, seed_list[k])
  /\ pc' = "questions"
  /\ UNCHANGED <<mainVars, clientVars>>

Rows(b, key) ==
  [n \in 1..Len(b[key]) |-> [Seed |-> seed, Bucket |-> key, Suggestion |-> b[key][n]]]

\* for bucket_name, suggestions in buckets.items(): ... all_rows.append(row)
Collect ==
  /\ pc = "collect"
  /\ all_rows' = all_rows \o Rows(buckets, "Questions")
                   \o Rows(buckets, "Prepositions") \o Rows(buckets, "Comparisons")
  /\ k' = k + 1
  /\ pc' = "loop"
  /\ UNCHANGED <<go_btn, country, seeds, seed_list, gl_code, clientVars, seed,
                 buckets, i, half, calls, expanded>>

\* the for loop is exhausted: master_df, tabs and downloads
Finish ==
  /\ pc = "loop" /\ k > Len(seed_list)
  /\ pc' = "done"
  /\ UNCHANGED <<mainVars, clientVars, seed, buckets, i, half, calls, expanded>>

\* ------------------------------------------------------------------------
\* google_autocomplete and expand_keyword
\* ------------------------------------------------------------------------
\* variant: the cache is written and never read
google_autocomplete_refetch(c, query, gl, out) ==
  [ret |-> Fetch(out), cache |-> (<<query, gl>> :> Fetch(out)) @@ c, sent |-> 1]

\* one invocation of the function st.cache_data wraps: a (query, gl) pair seen
\* before is answered from the cache, any other runs the body and is stored
google_autocomplete(c, query, gl, out) ==
  IF <<query, gl>> \in DOMAIN c
  THEN [ret |-> c[<<query, gl>>], cache |-> c, sent |-> 0]
  ELSE [ret |-> Fetch(out), cache |-> (<<query, gl>> :> Fetch(out)) @@ c, sent |-> 1]

NonEmpty(val) == val.t \in {"arr", "str"} /\ Len(val.v) > 0

\* buckets[key] += google_autocomplete(query, gl), then the loop moves on
Feed(key, query, npc, ni, nhalf) ==
  \E out \in Outcomes(query) :
    LET res == google_autocomplete(cache, query, gl_code, out)
        fresh == res.sent = 1 /\ NonEmpty(res.ret)
    IN /\ fresh => hits < MaxHits
       /\ cache' = res.cache
       /\ nreq' = nreq + res.sent
       /\ hits' = IF fresh THEN hits + 1 ELSE hits
       /\ last' = [called |-> TRUE, query |-> query, gl |-> gl_code,
                   sent |-> res.sent, failed |-> (res.sent = 1 /\ Failed(out)),
                   ret |-> res.ret]
       /\ calls' = Append(calls, [query |-> query, bucket |-> key])
       /\ IF NotIterable(res.ret)
          THEN pc' = "raised" /\ UNCHANGED <<buckets, i, half>>
          ELSE /\ buckets' = [buckets EXCEPT ![key] = @ \o Elems(res.ret)]
               /\ pc' = npc
               /\ i' = ni
               /\ half' = nhalf
       /\ UNCHANGED <<mainVars, seed, expanded>>

\* for q in QUESTION_WORDS
QuestionStep ==
  /\ pc = "questions"
  /\ Feed("Questions", Phrase(QUESTION_WORDS[i], seed),
          IF i < Len(QUESTION_WORDS) THEN "questions" ELSE "prepositions",
          IF i < Len(QUESTION_WORDS) THEN i + 1 ELSE 1, 1)

\* for p in PREPOSITIONS
PrepositionStep ==
  /\ pc = "prepositions"
  /\ IF half = 1
     THEN Feed("Prepositions", Phrase(seed, PREPOSITIONS[i]), "prepositions", i, 2)
     ELSE Feed("Prepositions", Phrase(PREPOSITIONS[i], seed),
               IF i < Len(PREPOSITIONS) THEN "prepositions" ELSE "comparisons",
               IF i < Len(PREPOSITIONS) THEN i + 1 ELSE 1, 1)

\* for c in COMPARISONS
ComparisonStep ==
  /\ pc = "comparisons"
  /\ IF half = 1
     THEN Feed("Comparisons", Phrase(seed, COMPARISONS[i]), "comparisons", i, 2)
     ELSE Feed("Comparisons", Phrase(COMPARISONS[i], seed),
               IF i < Len(COMPARISONS) THEN "comparisons" ELSE "dedup",
               IF i < Len(COMPARISONS) THEN i + 1 ELSE 1, 1)

\* for key in buckets: ... buckets[key] = unique; return buckets
Deduplicate ==
  /\ pc = "dedup"
  /\ IF \E key \in BucketNames : HasNonStr(buckets[key])
     THEN pc' = "raised" /\ UNCHANGED buckets
     ELSE buckets' = Dedup(buckets) /\ pc' = "collect"
  /\ UNCHANGED <<mainVars, clientVars, seed, i, half, calls, expanded>>

Next ==
  \/ Idle
  \/ ParseSeeds
  \/ RejectEmpty
  \/ StartRun
  \/ CallExpand
  \/ QuestionStep
  \/ PrepositionStep
  \/ ComparisonStep
  \/ Deduplicate
  \/ Collect
  \/ Finish

Spec == Init /\ [][Next]_vars

SpecMain == InitMain /\ [][Next]_vars

\* ------------------------------------------------------------------------
\* Properties
\* ------------------------------------------------------------------------
\* expand_keyword has returned and buckets holds the value it returned
Returned == pc = "collect"

\* the concatenation, in the order of the calls, of what google_autocomplete
\* returned for the queries that fed bucket key
RECURSIVE RawFrom(_, _)
RawFrom(key, n) ==
  IF n > Len(calls) THEN <<>>
  ELSE (IF calls[n].bucket = key
        THEN Elems(cache[<<calls[n].query, gl_code>>]) ELSE <<>>)
       \o RawFrom(key, n + 1)

Raw(key) == RawFrom(key, 1)

SameFolded(a, b) == Lower(a.v) = Lower(b.v)

\* the elements of raw with no equal element, after lower-casing, before them
RECURSIVE FirstOccurrencesUpTo(_, _)
FirstOccurrencesUpTo(raw, n) ==
  IF n = 0 THEN <<>>
  ELSE FirstOccurrencesUpTo(raw, n - 1)
       \o (IF \E m \in 1..(n - 1) : SameFolded(raw[m], raw[n]) THEN <<>> ELSE <<raw[n]>>)

FirstOccurrences(raw) == FirstOccurrencesUpTo(raw, Len(raw))

Occurrences(x, bucket) == Cardinality({n \in 1..Len(bucket) : bucket[n] = x})

FoldedOccurrences(x, bucket) ==
  Cardinality({n \in 1..Len(bucket) : SameFolded(bucket[n], x)})

Members(bucket) == {bucket[n] : n \in 1..Len(bucket)}

\* C1: no bucket that expand_keyword returns holds two elements that are
\* equal after lower-casing
C1_NoFoldedDuplicates ==
  Returned =>
    \A key \in BucketNames :
      \A m, n \in 1..Len(buckets[key]) :
        m # n => ~SameFolded(buckets[key][m], buckets[key][n])

\* a bucket was returned whose responses held duplicates differing in case
C1_Witness ==
  /\ Returned
  /\ \E key \in BucketNames :
       \E m, n \in 1..Len(Raw(key)) :
         m # n /\ SameFolded(Raw(key)[m], Raw(key)[n]) /\ Raw(key)[m] # Raw(key)[n]

\* C2: each bucket that expand_keyword returns is the first-occurrence filter
\* of the concatenation of the responses to its queries, in query order, with
\* the casing and the relative order of the responses
C2_FirstOccurrenceFilter ==
  Returned => \A key \in BucketNames : buckets[key] = FirstOccurrences(Raw(key))

\* two different non-empty responses fed Questions, the later repeating
\* suggestions of the earlier in another casing
C2_Witness ==
  /\ Returned
  /\ Raw("Questions") = <<SugUp, SugLow, SugCUp, SugLow, SugC>>
  /\ buckets["Questions"] = <<SugUp, SugCUp>>

\* the strings returned for queries of two different buckets
Shared(k1, k2) == Members(Raw(k1)) \cap Members(Raw(k2))

QuestionCalls(s) ==
  [n \in 1..10 |-> [query |-> Phrase(QUESTION_WORDS[n], s), bucket |-> "Questions"]]

PrepositionCalls(s) ==
  [n \in 1..20 |->
     [query |-> IF n % 2 = 1 THEN Phrase(s, PREPOSITIONS[(n + 1) \div 2])
                ELSE Phrase(PREPOSITIONS[n \div 2], s),
      bucket |-> "Prepositions"]]

ComparisonCalls(s) ==
  [n \in 1..14 |->
     [query |-> IF n % 2 = 1 THEN Phrase(s, COMPARISONS[(n + 1) \div 2])
                ELSE Phrase(COMPARISONS[n \div 2], s),
      bucket |-> "Comparisons"]]

ExpectedCalls(s) == QuestionCalls(s) \o PrepositionCalls(s) \o ComparisonCalls(s)

\* expand_keyword has ended, by returning or by an exception
Ended == pc \in {"collect", "raised"}

\* C3: an expansion for seed s issues the 10 question queries, then the 20
\* preposition queries, then the 14 comparison queries, in vocabulary order,
\* each feeding its own bucket, and leaves none of them out
C3_Claimed == Ended => calls = ExpectedCalls(seed)

\* C4: google_autocomplete returns a sequence of strings in every case, and
\* the empty sequence whenever the request failed or its response has not the
\* expected shape
C4_Claimed ==
  last.called =>
    /\ IsStrList(last.ret)
    /\ last.failed => last.ret = EmptyList

\* C5: expand_keyword never raises, and what it returns maps exactly the
\* three bucket names to sequences of strings
C5_Claimed ==
  /\ pc # "raised"
  /\ Returned =>
       /\ DOMAIN buckets = BucketNames
       /\ \A key \in BucketNames : ~HasNonStr(buckets[key])

\* C6 as claimed: one expansion makes at most 37 calls of google_autocomplete
C6_Claimed == Len(calls) <= 37

\* C6 as amended: one expansion makes at most 44 calls of google_autocomplete
C6_AtMost44Calls == Len(calls) <= 44

\* an expansion that returned after 44 calls
C6_Witness == Returned /\ Len(calls) = 44

\* the script is about to invoke google_autocomplete
Invoking == pc \in {"questions", "prepositions", "comparisons"}

\* C9 as claimed: every invocation of google_autocomplete performs exactly
\* one outbound request
C9_Claimed == last.called => last.sent = 1

\* C9 as amended: an invocation of google_autocomplete performs one outbound
\* request when its (query, region) pair is not in the cache and none when it
\* is, in which case it returns the cached value; the value it returns is in
\* the cache afterwards
C9_OneRequestUnlessCached ==
  [][Invoking =>
       LET key == <<last'.query, last'.gl>>
       IN /\ last'.called
          /\ nreq' = nreq + last'.sent
          /\ last'.sent = (IF key \in DOMAIN cache THEN 0 ELSE 1)
          /\ key \in DOMAIN cache => (last'.ret = cache[key] /\ cache' = cache)
          /\ key \in DOMAIN cache'
          /\ cache'[key] = last'.ret]_vars

\* an invocation answered from the cache, with a non-empty value
C9_Witness == last.called /\ last.sent = 0 /\ nreq > 0 /\ NonEmpty(last.ret)

\* every character of the text is white space: no line of it is non-empty
\* after trimming
AllBlank(text) == \A n \in 1..Len(text) : IsSpace(text[n])

Modifiers ==
  {QUESTION_WORDS[n] : n \in 1..Len(QUESTION_WORDS)}
  \cup {PREPOSITIONS[n] : n \in 1..Len(PREPOSITIONS)}
  \cup {COMPARISONS[n] : n \in 1..Len(COMPARISONS)}

\* C7: a seed input with no line that is non-empty after trimming ends in the
\* validation failure with no call of expand_keyword and no query; no query
\* is ever issued for an empty or whitespace-only seed
C7_NoQueryForBlankSeeds ==
  /\ (go_btn /\ AllBlank(seeds)) =>
       /\ pc \in {"start", "validate", "stopped"}
       /\ expanded = <<>> /\ calls = <<>> /\ nreq = 0 /\ ~last.called
  /\ \A n \in 1..Len(expanded) : ~AllBlank(expanded[n])
  /\ calls # <<>> =>
       /\ ~AllBlank(seed)
       /\ LET queries == {Phrase(w, seed) : w \in Modifiers}
                           \cup {Phrase(seed, w) : w \in Modifiers}
          IN \A n \in 1..Len(calls) : calls[n].query \in queries

\* the validation failure on a seed input of several blank lines
C7_Witness ==
  /\ pc = "stopped"
  /\ \E n \in 1..Len(seeds) : seeds[n] = Newline
  /\ \E n \in 1..Len(seeds) : seeds[n] = Space

\* C10: a run calls expand_keyword once for each of the first five lines that
\* are non-empty after trimming, in input order, with the trimmed line as seed
C10_Claimed ==
  pc \in {"done", "raised"} =>
    expanded = Take(StrippedNonEmpty(SplitLines(seeds)), 5)

====
